---- MODULE Spec2Model ----
(***************************************************************************)
(* Record/playback engine of the Behringer Wing mixer integration:         *)
(* AutomationPlayer (automation_player.py) and AutomationRecorder          *)
(* (automation_recorder.py).                                               *)
(*                                                                         *)
(* The player runs on one asyncio event loop: a step of the model is the   *)
(* code a coroutine executes between two suspension points.  The           *)
(* suspension points are `await self.osc_client.send_command(...)` and     *)
(* `await asyncio.sleep(...)`.  Time is counted in whole units; the clock  *)
(* of the event loop is kept per task as the time since its start_time,    *)
(* the only way the code reads it (line 73).                               *)
(***************************************************************************)
EXTENDS Integers, Sequences, FiniteSets, TLC

VARIABLES
    \* ---- AutomationPlayer fields
    is_playing,        \* self.is_playing
    playback_task,     \* self.playback_task: 0 is None, else the invocation whose task it is
    current_position,  \* self.current_position
    automation_data,   \* self.automation_data: 0 is None, else the document it refers to
    \* ---- the event loop
    run,               \* per start_playback invocation: its coroutine / loop task
    nruns,             \* number of start_playback invocations that got past the guard
    \* ---- observation
    calls,             \* the osc_client.send_command calls each invocation made, in order
    last_call,         \* outcome of the most recent start_playback / stop_playback call
    \* ---- AutomationRecorder fields
    events,            \* self.events
    is_recording,      \* self.is_recording
    start_time,        \* self.start_time (None is the value NoTime)
    initial_state,     \* self.initial_state
    wall,              \* datetime.now().timestamp()
    \* ---- observation of the recorder
    returned,          \* <<d>> for the value d stop_recording returned, << >> once a recording starts
    accepted,          \* arguments of the record_event calls made while Recording, since the last start_recording
    session            \* initial_state argument of the most recent start_recording

playerVars == <<is_playing, playback_task, current_position, automation_data,
                run, nruns, calls, last_call>>
recorderVars == <<events, is_recording, start_time, initial_state, wall,
                  returned, accepted, session>>
vars == <<playerVars, recorderVars>>

(***************************************************************************)
(* Bounds                                                                  *)
(***************************************************************************)
MaxRuns == 2      \* start_playback invocations in one behaviour
MaxTime == 1      \* longest time a loop task is followed after its start
MaxCalls == 3     \* send_command calls observed in one behaviour
MaxEvents == 2    \* record_event calls accepted in one recording
MaxWall == 2      \* largest reading of the wall clock

\* the from_position arguments tried: the beginning and a seek into the timeline
Positions == {0, 1}

(***************************************************************************)
(* Documents json.load can return.  A mapping is a function on its keys;   *)
(* initial_state keeps the insertion order of the JSON object as a         *)
(* sequence of <<key, value>>.  A key is the sequence of its fields with   *)
(* the "_" separators between them.                                        *)
(***************************************************************************)
Key(channel_type, channel_num, param_type) ==
    <<channel_type, "_", channel_num, "_", param_type>>

Event(t, channel_type, channel_num, param_type, value) ==
    [timestamp |-> t, channel_type |-> channel_type, channel_num |-> channel_num,
     param_type |-> param_type, value |-> value]

\* the sequence of the specification's concrete scenario (section 8), with
\* 1 unit of time for 0.5 s
DocA ==
    [initial_state |-> << <<Key("ch", "1", "fader"), -10>> >>,
     events |-> << Event(1, "ch", 1, "fader", -5),
                   Event(2, "ch", 1, "mute", 1) >>,
     duration |-> 2]

\* another recording; its first entries carry a parameter kind the player
\* does not know
DocB ==
    [initial_state |-> << <<Key("main", "1", "gain"), 3>>,
                          <<Key("main", "1", "fader"), -3>>,
                          <<Key("main", "1", "pan"), 0>> >>,
     events |-> << Event(0, "main", 1, "gain", 3),
                   Event(0, "main", 1, "pan", 1) >>,
     duration |-> 0]

Docs == <<DocA, DocB>>
Files == DOMAIN Docs

\* a document whose second initial_state key has no channel number
DocC ==
    [initial_state |-> << <<Key("ch", "1", "fader"), -10>>,
                          <<(<<"ch", "_", "fader">>), -5>> >>,
     events |-> << Event(1, "ch", 1, "mute", 1) >>,
     duration |-> 1]

\* a document with neither an initial_state nor a duration field
DocD ==
    [events |-> << Event(1, "ch", 1, "mute", 1) >>]

\* a document whose events are not stored in timestamp order
DocU ==
    [initial_state |-> << <<Key("ch", "1", "mute"), 0>> >>,
     events |-> << Event(1, "ch", 1, "mute", 1),
                   Event(0, "ch", 1, "fader", -5),
                   Event(1, "ch", 1, "pan", 0) >>,
     duration |-> 1]

\* json.load returns these as readily as the documents above
OtherDocs == <<DocC, DocD, DocU>>
OtherFiles == {Len(Docs) + i : i \in DOMAIN OtherDocs}
UnsortedFile == Len(Docs) + 3

None == 0
NoTime == -1000
NoDoc == << >>
Doc(ref) ==
    IF ref = None THEN NoDoc
    ELSE IF ref \in DOMAIN Docs THEN Docs[ref]
    ELSE OtherDocs[ref - Len(Docs)]

\* `not x` of Python for None and mappings
Falsy(d) == DOMAIN d = {}
\* dict.get(key, default)
Get(d, key, default) == IF key \in DOMAIN d THEN d[key] ELSE default

(***************************************************************************)
(* _apply_initial_state: key.split("_"), int(parts[1])                     *)
(***************************************************************************)
RECURSIVE SplitFrom(_, _, _)
SplitFrom(key, i, cur) ==
    IF i > Len(key) THEN <<cur>>
    ELSE IF key[i] = "_" THEN <<cur>> \o SplitFrom(key, i + 1, << >>)
    ELSE SplitFrom(key, i + 1, Append(cur, key[i]))

Split(key) == SplitFrom(key, 1, << >>)

Text(part) == IF part = << >> THEN "" ELSE part[1]

IntLiterals == [s \in {"1", "2"} |-> IF s = "1" THEN 1 ELSE 2]
IsInt(part) == Len(part) = 1 /\ part[1] \in DOMAIN IntLiterals

\* lines 49-52; ok is FALSE when one of them raises (IndexError, ValueError)
ParseKey(key) ==
    LET parts == Split(key) IN
    IF Len(parts) >= 3 /\ IsInt(parts[2])
    THEN [ok |-> TRUE, channel_type |-> Text(parts[1]),
          channel_num |-> IntLiterals[parts[2][1]], param_type |-> Text(parts[3])]
    ELSE [ok |-> FALSE, channel_type |-> "", channel_num |-> 0, param_type |-> ""]

(***************************************************************************)
(* _send_osc_command: osc_paths.get(param_type)                            *)
(***************************************************************************)
NoPath == << >>
\* a table that has an entry for whatever kind it is asked for
OscPathForAnyKind(channel_type, channel_num, param_type) ==
    CASE param_type = "fader" -> <<channel_type, channel_num, "fdr">>
      [] OTHER -> <<channel_type, channel_num, param_type>>

OscPath(channel_type, channel_num, param_type) ==
    CASE param_type = "fader" -> <<channel_type, channel_num, "fdr">>
      [] param_type = "mute" -> <<channel_type, channel_num, "mute">>
      [] param_type = "pan" -> <<channel_type, channel_num, "pan">>
      [] OTHER -> NoPath

(***************************************************************************)
(* _apply_initial_state from entry i up to its next suspension: "send" at  *)
(* entry idx, "raise" at entry idx, or "return".                           *)
(***************************************************************************)
RECURSIVE ApplyInitialFrom(_, _)
ApplyInitialFrom(initial, i) ==
    IF i > Len(initial) THEN [kind |-> "return", idx |-> i]
    ELSE LET k == ParseKey(initial[i][1]) IN
         IF ~k.ok THEN [kind |-> "raise", idx |-> i]
         ELSE IF OscPath(k.channel_type, k.channel_num, k.param_type) # NoPath
              THEN [kind |-> "send", idx |-> i]
              ELSE ApplyInitialFrom(initial, i + 1)

(***************************************************************************)
(* _playback_loop from event i up to its next suspension.  playing and     *)
(* elapsed do not change inside one step; cp is self.current_position.     *)
(***************************************************************************)
EventFields == {"timestamp", "channel_type", "channel_num", "param_type", "value"}

RECURSIVE PlaybackLoopFrom(_, _, _, _, _)
RECURSIVE SendEvent(_, _, _, _, _)

\* lines 80-87 for event i
SendEvent(evs, i, playing, cp, elapsed) ==
    LET e == evs[i] IN
    IF ~(EventFields \subseteq DOMAIN e)
    THEN [kind |-> "raise", idx |-> i, cp |-> cp, wait |-> 0]
    ELSE IF OscPath(e.channel_type, e.channel_num, e.param_type) # NoPath
         THEN [kind |-> "send", idx |-> i, cp |-> cp, wait |-> 0]
         ELSE PlaybackLoopFrom(evs, i + 1, playing, e.timestamp, elapsed)

\* a loop without the test of lines 68-69
PlaybackLoopNoSkip(evs, i, playing, cp, elapsed) ==
    IF i > Len(evs) THEN [kind |-> "return", idx |-> i, cp |-> cp, wait |-> 0]
    ELSE IF ~playing THEN [kind |-> "return", idx |-> i, cp |-> cp, wait |-> 0]
    ELSE LET e == evs[i] IN
         IF "timestamp" \notin DOMAIN e
         THEN [kind |-> "raise", idx |-> i, cp |-> cp, wait |-> 0]
         ELSE LET target_time == e.timestamp - cp
                  wait_time == target_time - elapsed
              IN IF wait_time > 0
                 THEN [kind |-> "sleep", idx |-> i, cp |-> cp, wait |-> wait_time]
                 ELSE SendEvent(evs, i, playing, cp, elapsed)

\* lines 63-77 from event i
PlaybackLoopFrom(evs, i, playing, cp, elapsed) ==
    IF i > Len(evs) THEN [kind |-> "return", idx |-> i, cp |-> cp, wait |-> 0]
    ELSE IF ~playing THEN [kind |-> "return", idx |-> i, cp |-> cp, wait |-> 0]
    ELSE LET e == evs[i] IN
         IF "timestamp" \notin DOMAIN e
         THEN [kind |-> "raise", idx |-> i, cp |-> cp, wait |-> 0]
         ELSE IF e.timestamp < cp
              THEN PlaybackLoopFrom(evs, i + 1, playing, cp, elapsed)
              ELSE LET target_time == e.timestamp - cp
                       wait_time == target_time - elapsed
                   IN IF wait_time > 0
                      THEN [kind |-> "sleep", idx |-> i, cp |-> cp, wait |-> wait_time]
                      ELSE SendEvent(evs, i, playing, cp, elapsed)

(***************************************************************************)
(* State of one start_playback invocation and of the task it creates       *)
(***************************************************************************)
Runs == 1..MaxRuns

\* pc: "unused"; "init_send" (start_playback awaits line 54); "created" (task
\* made at line 33, not yet run); "sleep" (line 77); "send" (line 80);
\* "raised" (start_playback left by an exception); "failed" (task left by an
\* exception); "cancelled"; "done" (task returned).
\* from_position, loaded: the argument of start_playback and the document
\* loaded when it was called.
NoRun ==
    [pc |-> "unused", from_position |-> 0, loaded |-> None, initial |-> None, ii |-> 0,
     evs |-> None, ei |-> 0, elapsed |-> 0, wake |-> 0]

InitialOf(r) == Get(Doc(run[r].initial), "initial_state", << >>)
EventsOf(r) == Get(Doc(run[r].evs), "events", << >>)

\* the task of r exists and has not finished
Live(r) == run[r].pc \in {"created", "sleep", "send"}

\* one osc_client.send_command(path, value) call: who made it, from which entry
\* of which document, and (for a timed event) how long after the loop's start
InitialCallOf(r, rec, i) ==
    LET entry == Get(Doc(rec.initial), "initial_state", << >>)[i]
        k == ParseKey(entry[1])
    IN [run |-> r, phase |-> "initial_state", idx |-> i, doc |-> rec.initial,
        path |-> OscPath(k.channel_type, k.channel_num, k.param_type),
        value |-> entry[2], timestamp |-> 0, offset |-> 0]

EventCallOf(r, rec, i) ==
    LET e == Get(Doc(rec.evs), "events", << >>)[i] IN
    [run |-> r, phase |-> "event", idx |-> i, doc |-> rec.evs,
     path |-> OscPath(e.channel_type, e.channel_num, e.param_type),
     value |-> e.value, timestamp |-> e.timestamp, offset |-> rec.elapsed]

RECURSIVE SumLen(_, _)
SumLen(f, S) ==
    IF S = {} THEN 0
    ELSE LET r == CHOOSE x \in S : TRUE IN Len(f[r]) + SumLen(f, S \ {r})

\* number of send_command calls made so far
NCalls == SumLen(calls, Runs)

\* a coroutine or task that has finished keeps what it was started with
Ended(rec, how) ==
    [NoRun EXCEPT !.pc = how, !.from_position = rec.from_position,
                  !.loaded = rec.loaded]

(***************************************************************************)
(* AutomationPlayer operations                                             *)
(***************************************************************************)
Init ==
    /\ is_playing = FALSE
    /\ playback_task = None
    /\ current_position = 0
    /\ automation_data = None
    /\ run = [r \in Runs |-> NoRun]
    /\ nruns = 0
    /\ calls = [r \in Runs |-> << >>]
    /\ last_call = "none"
    /\ events = << >>
    /\ is_recording = FALSE
    /\ start_time = NoTime
    /\ initial_state = << >>
    /\ wall = 0
    /\ returned = << >>
    /\ accepted = << >>
    /\ session = << >>

\* load_automation, lines 15-18
LoadAutomation(f) ==
    /\ automation_data' = f
    /\ UNCHANGED <<is_playing, playback_task, current_position, run, nruns,
                   calls, last_call>>
    /\ UNCHANGED recorderVars

\* start_playback continues after _apply_initial_state reached `res`:
\* the next send_command (line 54-56 -> 100), an exception out of
\* start_playback, or create_task (lines 33-35)
InitialAdvance(r, rec, res) ==
    CASE res.kind = "send" ->
           /\ NCalls < MaxCalls
           /\ calls' = [calls EXCEPT ![r] = Append(@, InitialCallOf(r, rec, res.idx))]
           /\ run' = [run EXCEPT ![r] = [rec EXCEPT !.pc = "init_send", !.ii = res.idx]]
           /\ UNCHANGED playback_task
      [] res.kind = "raise" ->
           /\ run' = [run EXCEPT ![r] = Ended(rec, "raised")]
           /\ UNCHANGED <<calls, playback_task>>
      [] OTHER ->
           /\ run' = [run EXCEPT ![r] =
                        [rec EXCEPT !.pc = "created", !.initial = None, !.ii = 0]]
           /\ playback_task' = r
           /\ UNCHANGED calls

\* start_playback with lines 25-26 moved before the guard of lines 22-23
StartPlaybackSetsFirst(p) ==
    /\ is_playing' = TRUE
    /\ current_position' = p
    /\ IF Falsy(Doc(automation_data))
       THEN /\ last_call' = "start_raised"
            /\ UNCHANGED <<playback_task, run, nruns, calls>>
       ELSE /\ nruns < MaxRuns
            /\ nruns' = nruns + 1
            /\ last_call' = "start"
            /\ LET r == nruns + 1
                   rec == [NoRun EXCEPT !.from_position = p, !.loaded = automation_data,
                                        !.initial = IF p = 0 THEN automation_data ELSE None]
                   initial == Get(Doc(automation_data), "initial_state", << >>)
               IN InitialAdvance(r, rec,
                     IF p = 0 THEN ApplyInitialFrom(initial, 1)
                              ELSE [kind |-> "return", idx |-> 0])
    /\ UNCHANGED automation_data
    /\ UNCHANGED recorderVars

\* start_playback, lines 20-35, up to its first suspension
StartPlayback(p) ==
    /\ IF Falsy(Doc(automation_data))
       THEN /\ last_call' = "start_raised"
            /\ UNCHANGED <<is_playing, playback_task, current_position, run, nruns, calls>>
       ELSE /\ nruns < MaxRuns
            /\ nruns' = nruns + 1
            /\ last_call' = "start"
            /\ is_playing' = TRUE
            /\ current_position' = p
            /\ LET r == nruns + 1
                   rec == [NoRun EXCEPT !.from_position = p, !.loaded = automation_data,
                                        !.initial = IF p = 0 THEN automation_data ELSE None]
                   initial == Get(Doc(automation_data), "initial_state", << >>)
               IN InitialAdvance(r, rec,
                     IF p = 0 THEN ApplyInitialFrom(initial, 1)
                              ELSE [kind |-> "return", idx |-> 0])
    /\ UNCHANGED automation_data
    /\ UNCHANGED recorderVars

\* the send_command awaited at line 54 completes
InitialSendDone(r) ==
    /\ run[r].pc = "init_send"
    /\ InitialAdvance(r, run[r], ApplyInitialFrom(InitialOf(r), run[r].ii + 1))
    /\ UNCHANGED <<is_playing, current_position, automation_data, nruns, last_call>>
    /\ UNCHANGED recorderVars

\* the send_command awaited at line 54 raises: the exception leaves
\* _apply_initial_state and start_playback
InitialSendFail(r) ==
    /\ run[r].pc = "init_send"
    /\ run' = [run EXCEPT ![r] = Ended(run[r], "raised")]
    /\ UNCHANGED <<is_playing, playback_task, current_position, automation_data,
                   nruns, calls, last_call>>
    /\ UNCHANGED recorderVars

\* the loop task continues after _playback_loop reached `res`
LoopAdvance(r, rec, res) ==
    /\ current_position' = res.cp
    /\ CASE res.kind = "sleep" ->
              /\ run' = [run EXCEPT ![r] =
                           [rec EXCEPT !.pc = "sleep", !.ei = res.idx,
                                       !.wake = rec.elapsed + res.wait]]
              /\ UNCHANGED calls
         [] res.kind = "send" ->
              /\ NCalls < MaxCalls
              /\ calls' = [calls EXCEPT ![r] = Append(@, EventCallOf(r, rec, res.idx))]
              /\ run' = [run EXCEPT ![r] =
                           [rec EXCEPT !.pc = "send", !.ei = res.idx, !.wake = 0]]
         [] res.kind = "raise" ->
              /\ run' = [run EXCEPT ![r] = Ended(rec, "failed")]
              /\ UNCHANGED calls
         [] OTHER ->
              /\ run' = [run EXCEPT ![r] = Ended(rec, "done")]
              /\ UNCHANGED calls

\* first step of the task: lines 60-61, then the loop
LoopStart(r) ==
    /\ run[r].pc = "created"
    /\ LET rec == [run[r] EXCEPT !.evs = automation_data, !.elapsed = 0]
           evs == Get(Doc(automation_data), "events", << >>)
       IN LoopAdvance(r, rec, PlaybackLoopFrom(evs, 1, is_playing, current_position, 0))
    /\ UNCHANGED <<is_playing, playback_task, automation_data, nruns, last_call>>
    /\ UNCHANGED recorderVars

\* asyncio.sleep(wait_time) at line 77 returns, no earlier than asked
LoopWake(r) ==
    /\ run[r].pc = "sleep"
    /\ run[r].elapsed >= run[r].wake
    /\ LoopAdvance(r, run[r],
          SendEvent(EventsOf(r), run[r].ei, is_playing, current_position,
                    run[r].elapsed))
    /\ UNCHANGED <<is_playing, playback_task, automation_data, nruns, last_call>>
    /\ UNCHANGED recorderVars

\* the send_command awaited at line 80 completes: line 87, then the loop
LoopSendDone(r) ==
    /\ run[r].pc = "send"
    /\ LoopAdvance(r, run[r],
          PlaybackLoopFrom(EventsOf(r), run[r].ei + 1, is_playing,
                           EventsOf(r)[run[r].ei].timestamp, run[r].elapsed))
    /\ UNCHANGED <<is_playing, playback_task, automation_data, nruns, last_call>>
    /\ UNCHANGED recorderVars

\* the send_command awaited at line 80 raises: the exception ends the task
LoopSendFail(r) ==
    /\ run[r].pc = "send"
    /\ run' = [run EXCEPT ![r] = Ended(run[r], "failed")]
    /\ UNCHANGED <<is_playing, playback_task, current_position, automation_data,
                   nruns, calls, last_call>>
    /\ UNCHANGED recorderVars

\* stop_playback, lines 37-41; Task.cancel() ends a task that has not finished
StopPlayback ==
    /\ is_playing' = FALSE
    /\ last_call' = "stop"
    /\ run' = IF playback_task # None /\ Live(playback_task)
              THEN [run EXCEPT ![playback_task] = Ended(run[playback_task], "cancelled")]
              ELSE run
    /\ UNCHANGED <<playback_task, current_position, automation_data, nruns, calls>>
    /\ UNCHANGED recorderVars

\* the event-loop clock advances by one unit: every task that has taken
\* its start_time (line 61) is one unit further from it
Started(r) == run[r].pc \in {"sleep", "send"}

Tick ==
    /\ \E r \in Runs : Started(r)
    /\ \A r \in Runs : Started(r) => run[r].elapsed < MaxTime
    /\ run' = [r \in Runs |->
                IF Started(r) THEN [run[r] EXCEPT !.elapsed = @ + 1] ELSE run[r]]
    /\ UNCHANGED <<is_playing, playback_task, current_position, automation_data,
                   nruns, calls, last_call>>
    /\ UNCHANGED recorderVars

Next ==
    \/ \E f \in Files : LoadAutomation(f)
    \/ \E p \in Positions : StartPlayback(p)
    \/ \E r \in Runs : InitialSendDone(r)
    \/ \E r \in Runs : InitialSendFail(r)
    \/ \E r \in Runs : LoopStart(r)
    \/ \E r \in Runs : LoopWake(r)
    \/ \E r \in Runs : LoopSendDone(r)
    \/ \E r \in Runs : LoopSendFail(r)
    \/ StopPlayback
    \/ Tick

Spec == Init /\ [][Next]_vars

\* the same player with start_playback called at most once, so that no two
\* invocations overlap
OneRunNext ==
    \/ \E f \in Files : LoadAutomation(f)
    \/ \E p \in Positions : nruns = 0 /\ StartPlayback(p)
    \/ \E r \in Runs : InitialSendDone(r)
    \/ \E r \in Runs : InitialSendFail(r)
    \/ \E r \in Runs : LoopStart(r)
    \/ \E r \in Runs : LoopWake(r)
    \/ \E r \in Runs : LoopSendDone(r)
    \/ \E r \in Runs : LoopSendFail(r)
    \/ StopPlayback
    \/ Tick

OneRunSpec == Init /\ [][OneRunNext]_vars

\* The event loop runs every task that is ready, the clock it reads goes on,
\* and an awaited send_command returns or raises.
FairOneRunSpec ==
    Init /\ [][OneRunNext]_vars
         /\ WF_vars(\E r \in Runs : LoopStart(r))
         /\ WF_vars(\E r \in Runs : LoopWake(r))
         /\ WF_vars(\E r \in Runs : InitialSendDone(r) \/ InitialSendFail(r))
         /\ WF_vars(\E r \in Runs : LoopSendDone(r) \/ LoopSendFail(r))
         /\ WF_vars(Tick)

\* one start_playback on any document json.load can return
AnyFileNext ==
    \/ \E f \in Files \cup OtherFiles : LoadAutomation(f)
    \/ \E p \in Positions : nruns = 0 /\ StartPlayback(p)
    \/ \E r \in Runs : InitialSendDone(r)
    \/ \E r \in Runs : InitialSendFail(r)
    \/ \E r \in Runs : LoopStart(r)
    \/ \E r \in Runs : LoopWake(r)
    \/ \E r \in Runs : LoopSendDone(r)
    \/ \E r \in Runs : LoopSendFail(r)
    \/ StopPlayback
    \/ Tick

AnyFileSpec == Init /\ [][AnyFileNext]_vars

\* the player of Spec, overlapping invocations included, on the document
\* whose events are out of order
UnsortedNext ==
    \/ LoadAutomation(UnsortedFile)
    \/ \E p \in Positions : StartPlayback(p)
    \/ \E r \in Runs : InitialSendDone(r)
    \/ \E r \in Runs : InitialSendFail(r)
    \/ \E r \in Runs : LoopStart(r)
    \/ \E r \in Runs : LoopWake(r)
    \/ \E r \in Runs : LoopSendDone(r)
    \/ \E r \in Runs : LoopSendFail(r)
    \/ StopPlayback
    \/ Tick

UnsortedSpec == Init /\ [][UnsortedNext]_vars

\* the player of Spec, overlapping invocations included, when
\* stop_playback is never called, every send_command completes and the
\* document is the sorted one with recognised kinds only
UninterruptedNext ==
    \/ LoadAutomation(1)
    \/ \E p \in Positions : StartPlayback(p)
    \/ \E r \in Runs : InitialSendDone(r)
    \/ \E r \in Runs : LoopStart(r)
    \/ \E r \in Runs : LoopWake(r)
    \/ \E r \in Runs : LoopSendDone(r)
    \/ Tick

UninterruptedSpec == Init /\ [][UninterruptedNext]_vars

(***************************************************************************)
(* AutomationRecorder operations                                           *)
(***************************************************************************)
\* arguments tried
RecordArgs == { <<"ch", 1, "fader", -5>>, <<"ch", 1, "mute", 1>> }
InitialStates == { << >>, << <<Key("ch", "1", "fader"), -10>> >> }

\* get_elapsed_time, lines 69-73
GetElapsedTime ==
    IF start_time = NoTime THEN 0 ELSE wall - start_time

\* AutomationEvent.to_dict, lines 25-26: asdict keeps every field
ToDict(event) ==
    [f \in {"timestamp", "channel_type", "channel_num", "param_type", "value"} |-> event[f]]

\* start_recording without line 41
StartRecordingKeepsEvents(state) ==
    /\ is_recording' = TRUE
    /\ start_time' = wall
    /\ initial_state' = state
    /\ accepted' = << >>
    /\ session' = state
    /\ returned' = << >>
    /\ UNCHANGED <<events, wall>>
    /\ UNCHANGED playerVars

\* start_recording, lines 37-42
StartRecording(state) ==
    /\ is_recording' = TRUE
    /\ start_time' = wall
    /\ events' = << >>
    /\ initial_state' = state
    /\ accepted' = << >>
    /\ session' = state
    /\ returned' = << >>
    /\ UNCHANGED wall
    /\ UNCHANGED playerVars

\* stop_recording, lines 44-51
StopRecording ==
    /\ is_recording' = FALSE
    /\ returned' = << [initial_state |-> initial_state,
                       events |-> [i \in 1..Len(events) |-> ToDict(events[i])],
                       duration |-> GetElapsedTime] >>
    /\ UNCHANGED <<events, start_time, initial_state, wall, accepted, session>>
    /\ UNCHANGED playerVars

\* record_event, lines 53-67
RecordEvent(a) ==
    /\ IF ~is_recording
       THEN UNCHANGED <<events, accepted>>
       ELSE /\ Len(events) < MaxEvents
            /\ events' = Append(events,
                  [timestamp |-> GetElapsedTime, channel_type |-> a[1],
                   channel_num |-> a[2], param_type |-> a[3], value |-> a[4]])
            /\ accepted' = Append(accepted, a)
    /\ UNCHANGED <<is_recording, start_time, initial_state, wall, returned, session>>
    /\ UNCHANGED playerVars

\* datetime.now() reads the system's wall clock: it advances, and it is set
\* back when the system time is adjusted
WallAdvance ==
    /\ wall < MaxWall
    /\ wall' = wall + 1
    /\ UNCHANGED <<events, is_recording, start_time, initial_state, returned,
                   accepted, session>>
    /\ UNCHANGED playerVars

WallSetBack ==
    /\ wall > 0
    /\ wall' = wall - 1
    /\ UNCHANGED <<events, is_recording, start_time, initial_state, returned,
                   accepted, session>>
    /\ UNCHANGED playerVars

RecorderNext ==
    \/ \E state \in InitialStates : StartRecording(state)
    \/ StopRecording
    \/ \E a \in RecordArgs : RecordEvent(a)
    \/ WallAdvance
    \/ WallSetBack

RecorderSpec == Init /\ [][RecorderNext]_vars

(***************************************************************************)
(* Properties                                                              *)
(***************************************************************************)
Range(seq) == {seq[i] : i \in DOMAIN seq}
EventCalls(r) == {c \in Range(calls[r]) : c.phase = "event"}
InitialCalls(r) == {c \in Range(calls[r]) : c.phase = "initial_state"}
DocEvents(ref) == Get(Doc(ref), "events", << >>)
DocInitial(ref) == Get(Doc(ref), "initial_state", << >>)
Sorted(evs) ==
    \A i, j \in DOMAIN evs : i < j => evs[i].timestamp <= evs[j].timestamp
\* start_playback of invocation r has ended, by returning or by an exception
StartEnded(r) == run[r].pc \notin {"unused", "init_send"}

\* C1: once stop_playback has returned and until start_playback is invoked
\* again, no step makes a send_command call.
C1_NoDispatchAfterStop ==
    [][(last_call = "stop" /\ last_call' = "stop") => calls' = calls]_vars

\* C2: every timed event of a run on a sorted sequence is dispatched no
\* earlier than (its timestamp - from_position) after the loop's start.
C2_OriginalTiming ==
    \A r \in Runs : \A c \in EventCalls(r) :
        Sorted(DocEvents(c.doc)) => c.offset >= c.timestamp - run[r].from_position

\* C3: a run started with start_playback(p) never dispatches an event whose
\* timestamp is below p.
C3_SeekSkipsEarlier ==
    \A r \in Runs : \A c \in EventCalls(r) : c.timestamp >= run[r].from_position

\* C4: once start_playback(p) has ended, with p = 0 every entry of the loaded
\* initial_state has been dispatched exactly once, all of them before the
\* run's first timed event; with p > 0 no entry has been dispatched.
C4_InitialStateIffFromZero ==
    \A r \in Runs :
        /\ run[r].from_position # 0 => InitialCalls(r) = {}
        /\ (StartEnded(r) /\ run[r].from_position = 0) =>
              \A i \in DOMAIN DocInitial(run[r].loaded) :
                 Cardinality({k \in DOMAIN calls[r] :
                                 /\ calls[r][k].phase = "initial_state"
                                 /\ calls[r][k].idx = i
                                 /\ calls[r][k].doc = run[r].loaded}) = 1
        /\ \A k, m \in DOMAIN calls[r] :
              (calls[r][k].phase = "event" /\ calls[r][m].phase = "initial_state")
                 => m < k

\* C5: there are never two live playback loops of the same Player.
C5_OneLoop ==
    Cardinality({r \in Runs : Live(r)}) <= 1

\* C8: a loop that a failed dispatch has ended, with stop_playback not called
\* since the start, has dispatched every later event whose timestamp is at
\* or after the current position.
C8_FailedDispatchContinues ==
    \A r \in Runs :
        (run[r].pc = "failed" /\ is_playing /\ last_call # "stop" /\ calls[r] # << >>) =>
            LET last == calls[r][Len(calls[r])]
                evs == DocEvents(last.doc)
            IN \A j \in DOMAIN evs :
                  (j > last.idx /\ evs[j].timestamp >= current_position
                      /\ OscPath(evs[j].channel_type, evs[j].channel_num,
                                 evs[j].param_type) # NoPath)
                  => \E c \in EventCalls(r) : c.idx = j

\* C9: every call of a run carries data of the document that was loaded when
\* its start_playback was called.
C9_RunKeepsItsSequence ==
    \A r \in Runs : \A c \in Range(calls[r]) : c.doc = run[r].loaded

\* C10: a start_playback step taken with no sequence loaded raises and leaves
\* is_playing, current_position, playback_task, every coroutine and task and
\* the send_command calls as they were.
C10_NotLoadedNoChange ==
    [][((\E p \in Positions : StartPlayback(p)) /\ Falsy(Doc(automation_data)))
          => /\ last_call' = "start_raised"
             /\ UNCHANGED <<is_playing, current_position, playback_task, run, nruns,
                            calls>>]_vars

\* a start_playback has raised on a Player with nothing loaded
C10_Witness ==
    /\ last_call = "start_raised"
    /\ automation_data = None

\* ---- recorder
ArgsOf(d) == <<d.channel_type, d.channel_num, d.param_type, d.value>>

\* C6: the events stop_recording returns are the N accepted record_event
\* calls in call order, with timestamps >= 0 and non-decreasing.
C6_RecordedLog ==
    returned # << >> =>
        LET evs == returned[1].events IN
        /\ Len(evs) = Len(accepted)
        /\ \A i \in DOMAIN evs : ArgsOf(evs[i]) = accepted[i]
        /\ \A i \in DOMAIN evs : evs[i].timestamp >= 0
        /\ \A i, j \in DOMAIN evs : i < j => evs[i].timestamp <= evs[j].timestamp

\* C7 (state part): what stop_recording returned is the initial_state of the
\* most recent start_recording and the events accepted since then, in order.
C7_ReturnedIsLastSession ==
    returned # << >> =>
        LET evs == returned[1].events IN
        /\ returned[1].initial_state = session
        /\ Len(evs) = Len(accepted)
        /\ \A i \in DOMAIN evs : ArgsOf(evs[i]) = accepted[i]

\* C7 (step part): record_event while Idle changes no field of the recorder.
C7_IdleRecordIsNoOp ==
    (\E a \in RecordArgs : RecordEvent(a)) /\ ~is_recording
        => UNCHANGED <<events, is_recording, start_time, initial_state>>

\* C7: record_event while Idle changes nothing, and stop_recording returns
\* exactly the most recent session, never events of an earlier one.
C7_SessionIsolation ==
    []C7_ReturnedIsLastSession /\ [][C7_IdleRecordIsNoOp]_vars

\* a second or later state of stopping: a session with an initial_state and
\* two accepted events has been returned
C7_Witness ==
    /\ returned # << >>
    /\ Len(returned[1].events) = 2
    /\ returned[1].initial_state # << >>
    /\ ~is_recording

\* the AutomationSequence shape: the three fields, initial_state keys that
\* decompose into channel_type, channel_num, param_type, complete events
Conforms(d) ==
    /\ {"initial_state", "events", "duration"} \subseteq DOMAIN d
    /\ \A i \in DOMAIN d.initial_state : ParseKey(d.initial_state[i][1]).ok
    /\ \A i \in DOMAIN d.events : EventFields \subseteq DOMAIN d.events[i]

\* C11: load_automation refuses a source that does not conform to the
\* AutomationSequence shape, so no send_command call is ever made from such
\* a source by a following start_playback.
C11_NoDispatchFromMalformed ==
    \A r \in Runs : \A c \in Range(calls[r]) : Conforms(Doc(c.doc))

\* C12: once the loop task of a run has gone through all its events and
\* stop_playback has not been called since the start_playback, the Player
\* eventually is Idle (is_playing false).
C12_CompletionReturnsToIdle ==
    ((\E r \in Runs : run[r].pc = "done") /\ last_call = "start") ~> ~is_playing

\* channel and kind of every entry of every document
Entries ==
    [f \in Files \cup OtherFiles |->
        [initial_state |->
            [i \in DOMAIN DocInitial(f) |-> ParseKey(DocInitial(f)[i][1])],
         event |-> DocEvents(f)]]
\* the entry of the document a send_command call was made for
EntryOf(c) == Entries[c.doc][c.phase][c.idx]
LastCall(r) == calls[r][Len(calls[r])]

\* C13: an entry whose param_type is not fader, mute or pan makes no
\* send_command call and no error: every call is for a recognised kind, its
\* path is built from the entry's channel_type and channel_num, two kinds of
\* one channel never share a path, and an invocation ends by an exception
\* only out of a send_command call it made.
C13_UnknownParamDropped ==
    /\ \A r \in Runs : \A i \in DOMAIN calls[r] :
          LET c == calls[r][i]
              e == EntryOf(c)
          IN /\ e.param_type \in {"fader", "mute", "pan"}
             /\ c.path # NoPath
             /\ c.path[1] = e.channel_type
             /\ c.path[2] = e.channel_num
    /\ \A r1, r2 \in Runs : \A i \in DOMAIN calls[r1] : \A j \in DOMAIN calls[r2] :
          LET e1 == EntryOf(calls[r1][i])
              e2 == EntryOf(calls[r2][j])
          IN (/\ e1.param_type # e2.param_type
              /\ e1.channel_type = e2.channel_type
              /\ e1.channel_num = e2.channel_num)
                 => calls[r1][i].path # calls[r2][j].path
    /\ \A r \in Runs :
          /\ run[r].pc = "raised" =>
                calls[r] # << >> /\ LastCall(r).phase = "initial_state"
          /\ run[r].pc = "failed" =>
                calls[r] # << >> /\ LastCall(r).phase = "event"

\* a run from the beginning of DocB has passed the gain entries: the pan
\* entry of initial_state that follows one was sent, and so was the pan
\* event that follows the gain event
C13_Witness ==
    \E r \in Runs :
        /\ run[r].from_position = 0
        /\ \E c \in InitialCalls(r) :
              c.doc = 2 /\ c.idx = 3 /\ EntryOf(c).param_type = "pan"
        /\ \E c \in EventCalls(r) :
              /\ c.doc = 2 /\ c.idx = 2
              /\ DocEvents(2)[1].param_type = "gain"
              /\ \A d \in EventCalls(r) : d.idx # 1

\* C14: the duration of every sequence stop_recording returns is at least
\* the timestamp of its last event, and at least 0 when it has no event,
\* whatever the clock the recorder reads does.
C14_DurationCoversEvents ==
    returned # << >> =>
        LET d == returned[1] IN
        /\ d.duration >= 0
        /\ d.events # << >> => d.duration >= d.events[Len(d.events)].timestamp

\* C15: in the calls of one run the timestamps of the timed events are
\* non-decreasing in dispatch order, also when the stored events are not
\* sorted by timestamp.
C15_DispatchOrder ==
    \A r \in Runs : \A i, j \in DOMAIN calls[r] :
        (/\ i < j
         /\ calls[r][i].phase = "event"
         /\ calls[r][j].phase = "event")
            => calls[r][i].timestamp <= calls[r][j].timestamp

\* a run of the unsorted document has dispatched its first event (at 1),
\* has passed the second (at 0) without a call and has dispatched the third
C15_Witness ==
    \E r \in Runs :
        /\ run[r].loaded = UnsortedFile
        /\ ~Sorted(DocEvents(UnsortedFile))
        /\ \E c \in EventCalls(r) : c.doc = UnsortedFile /\ c.idx = 1
        /\ \E c \in EventCalls(r) : c.doc = UnsortedFile /\ c.idx = 3
        /\ \A c \in EventCalls(r) : c.idx # 2

\* invocation r or its loop task is suspended in an awaited send_command
InFlight(r) == run[r].pc \in {"init_send", "send"}

\* C16: at no time are two send_command calls of the Player in flight, be
\* it an initial_state call of a start_playback and a timed-event call of a
\* loop, or the timed-event calls of two loops.
C16_OneDispatchInFlight ==
    \A r1, r2 \in Runs : (InFlight(r1) /\ InFlight(r2)) => r1 = r2

\* the timed-event calls of invocation r, in dispatch order
EventCallSeq(r) == SelectSeq(calls[r], LAMBDA c : c.phase = "event")
\* the events of its sequence a run started at from_position has to dispatch
Due(r) ==
    {i \in DOMAIN DocEvents(run[r].loaded) :
        DocEvents(run[r].loaded)[i].timestamp >= run[r].from_position}
Complete(r) ==
    LET ec == EventCallSeq(r) IN
    /\ {ec[k].idx : k \in DOMAIN ec} = Due(r)
    /\ Len(ec) = Cardinality(Due(r))
    /\ \A k1, k2 \in DOMAIN ec : k1 < k2 => ec[k1].idx < ec[k2].idx

\* C17: when stop_playback is never called and every send_command
\* completes, a loop task that has terminated has dispatched every event of
\* its sorted sequence with timestamp >= from_position exactly once, in
\* stored order.
C17_TerminatedRunIsComplete ==
    \A r \in Runs :
        (run[r].pc = "done" /\ Sorted(DocEvents(run[r].loaded))) => Complete(r)

\* C18: start_recording while Recording and stop_recording while Idle leave
\* the event log, initial_state, the start instant and the Idle/Recording
\* state of the recorder unchanged.
C18_InvalidTransitionsAreNoOps ==
    [][/\ ((\E state \in InitialStates : StartRecording(state)) /\ is_recording)
            => UNCHANGED <<events, initial_state, start_time, is_recording>>
       /\ (StopRecording /\ ~is_recording)
            => UNCHANGED <<events, initial_state, start_time, is_recording>>]_vars

\* C19: is_playing is true only while a start_playback call is in progress
\* (suspended in _apply_initial_state) or a loop task is live; a
\* start_playback that failed while applying initial_state does not leave
\* is_playing true with no loop.
C19_PlayingOnlyWhileRunning ==
    is_playing => \E r \in Runs : run[r].pc = "init_send" \/ Live(r)

====
